---- MODULE Spec2Model ----
(***************************************************************************)
(* Model of the client-side session controller of the web server template: *)
(* the UserProvider component (frontend/src/context/user.tsx), the error   *)
(* interceptor inspectError, the request wrapper handleError               *)
(* (frontend/src/api/api.ts) and the login view.  Every action is one      *)
(* handler of the single-threaded event loop, run to completion.           *)
(* this.setState(..) is modelled as the assignment of state.user.          *)
(***************************************************************************)
EXTENDS Integers, Sequences, FiniteSets, TLC

\* ---------------------------------------------------------------- bounds
MaxMounts == 2    \* componentDidMount calls in one run

\* ------------------------------------------------------------- constants
Unauthenticated == 1000
JsonDecodeError == -1
ArbitraryJSError == -2
OtherStatusCode == 2000

\* The UserProvider of the root route and a surplus second instance.
Ctrl == {1, 2}
NULL == 0
Users == {"u1", "u2"}

NoError == [status_code |-> 0, message |-> ""]
ServerErrors ==
    { [status_code |-> Unauthenticated, message |-> "no session"],
      [status_code |-> OtherStatusCode, message |-> "denied"] }

\* What the promise of the generated client can do: fulfil with the value,
\* reject with a ResponseError (whose body is JSON or not), reject with a
\* RequiredError, or reject with anything else.
Settled(kind, value, body) == [kind |-> kind, value |-> value, body |-> body]
GetMeOutcomes ==
    { Settled("fulfilled", u, NoError) : u \in Users }
    \cup { Settled("ResponseError", "", b) : b \in ServerErrors }
    \cup { Settled("ResponseErrorNoJson", "", NoError),
           Settled("RequiredError", "", NoError),
           Settled("thrown", "", NoError) }
LoginOutcomes ==
    { Settled("fulfilled", "", NoError) }
    \cup { Settled("ResponseError", "", b) : b \in ServerErrors }

\* ----------------------------------------------------------------- Result
Ok(v) == [isOk |-> TRUE, ok |-> v, err |-> NoError]
Err(e) == [isOk |-> FALSE, ok |-> "", err |-> e]

parseError(o) ==
    IF o.kind = "ResponseError"
    THEN o.body
    ELSE [status_code |-> JsonDecodeError,
          message |-> "The server's response was invalid json"]

\* handleError without the RequiredError case.
handleError_noRequiredCase(o) ==
    IF o.kind = "fulfilled" THEN Ok(o.value)
    ELSE IF o.kind \in {"ResponseError", "ResponseErrorNoJson"}
         THEN Err(parseError(o))
    ELSE Err([status_code |-> ArbitraryJSError,
              message |-> "Unknown error occurred"])

handleError(o) ==
    IF o.kind = "fulfilled" THEN Ok(o.value)
    ELSE IF o.kind \in {"ResponseError", "ResponseErrorNoJson"}
         THEN Err(parseError(o))
    ELSE IF o.kind = "RequiredError"
         THEN Err([status_code |-> JsonDecodeError,
                   message |-> "The server's response didn't match the spec"])
    ELSE Err([status_code |-> ArbitraryJSError,
              message |-> "Unknown error occurred"])

\* ------------------------------------------------------------------ state
VARIABLES
    user,           \* user[c]: state.user of controller c
    fetching,       \* fetching[c]: the guard of fetchUser
    inflight,       \* inflight[c]: getMe requests of c awaiting their callback
    mounted,        \* mounted[c]: c is in the rendered tree
    USER_PROVIDER,  \* the global singleton slot, NULL or a controller
    logins,         \* logins[c]: c's login view has sent login requests
    ws,             \* the connectivity monitor WS
    listeners,      \* runningToast of every "state" listener added to WS
    toasts,         \* ids of the persistent notifications on screen
    mounts,         \* componentDidMount calls so far
    hist,           \* history: which controllers saw a fetch resolve / succeed
    last            \* history: what the last handler did

vars == <<user, fetching, inflight, mounted, USER_PROVIDER, logins, ws,
          listeners, toasts, mounts, hist, last>>

IsUser(s) == s \notin {"loading", "unauthenticated"}

Session(s) ==
    IF s = "loading" THEN "Loading"
    ELSE IF s = "unauthenticated" THEN "Unauthenticated"
    ELSE "Authenticated"

\* The record kept of the last handler: which one ran (op) on which
\* controller (c), the session, guard, singleton slot, monitor state and
\* number of persistent notifications (shown) it found, and what it did;
\* kind is how the promise of the generated client settled.
NoEvent ==
    [op |-> "init", c |-> NULL, from |-> "", to |-> "", guard |-> FALSE,
     first |-> FALSE, issued |-> 0, res |-> 0, ok |-> "", connects |-> 0,
     wsBefore |-> "", slot |-> NULL, logs |-> {}, notes |-> <<>>,
     msg |-> "", shown |-> 0, kind |-> ""]

Event(op, c) ==
    [NoEvent EXCEPT
        !.op = op, !.c = c,
        !.from = IF c = NULL THEN "" ELSE user[c],
        !.to = IF c = NULL THEN "" ELSE user'[c],
        !.guard = IF c = NULL THEN FALSE ELSE fetching[c],
        !.issued = IF c = NULL THEN 0
                   ELSE IF inflight'[c] > inflight[c]
                        THEN inflight'[c] - inflight[c] ELSE 0,
        !.shown = Cardinality(toasts)]

Init ==
    /\ user = [c \in Ctrl |-> "loading"]
    /\ fetching = [c \in Ctrl |-> FALSE]
    /\ inflight = [c \in Ctrl |-> 0]
    /\ mounted = [c \in Ctrl |-> FALSE]
    /\ USER_PROVIDER = NULL
    /\ logins = [c \in Ctrl |-> FALSE]
    /\ ws = [started |-> FALSE, state |-> "disconnected"]
    /\ listeners = <<>>
    /\ toasts = {}
    /\ mounts = 0
    /\ hist = [c \in Ctrl |-> "none"]
    /\ last = NoEvent

\* ----------------------------------------------------- notification sink
\* toast.warn / toast.error return the id of the notification they show.
FreshToast(ts) == CHOOSE n \in 1 .. (Cardinality(ts) + 1) : n \notin ts

\* The listener without the test of runningToast in its default case.
stateListener_alwaysWarn(newState, runningToast, ts) ==
    IF newState = "connected"
    THEN [runningToast |-> NULL,
          toasts |-> IF runningToast # NULL THEN ts \ {runningToast} ELSE ts,
          notes |-> <<"Websocket has connected">>]
    ELSE [runningToast |-> FreshToast(ts),
          toasts |-> ts \cup {FreshToast(ts)},
          notes |-> <<>>]

\* The "state" listener one componentDidMount adds to WS; runningToast is
\* the variable its closure owns.
stateListener(newState, runningToast, ts) ==
    IF newState = "connected"
    THEN [runningToast |-> NULL,
          toasts |-> IF runningToast # NULL THEN ts \ {runningToast} ELSE ts,
          notes |-> <<"Websocket has connected">>]
    ELSE IF runningToast = NULL
         THEN [runningToast |-> FreshToast(ts),
               toasts |-> ts \cup {FreshToast(ts)},
               notes |-> <<>>]
         ELSE [runningToast |-> runningToast, toasts |-> ts, notes |-> <<>>]

\* ------------------------------------------------ connectivity monitor WS
\* WS calls the listeners of its "state" event in the order they were added.
RECURSIVE emit(_, _, _, _, _)
emit(newState, ls, i, ts, notes) ==
    IF i > Len(ls)
    THEN [listeners |-> ls, toasts |-> ts, notes |-> notes]
    ELSE LET r == stateListener(newState, ls[i], ts)
         IN  emit(newState, [ls EXCEPT ![i] = r.runningToast], i + 1,
                  r.toasts, notes \o r.notes)

Quiet == [listeners |-> listeners, toasts |-> toasts, notes |-> <<>>]

\* WS.connect(url): the monitor starts connecting; a state event goes out
\* when that is a transition.
WSconnect(w) == [started |-> TRUE, state |-> "connecting"]

WSconnectEmits(w) == w.state # "connecting"

\* ------------------------------------------------------------ UserProvider
\* fetchUser that clears the guard as soon as the request is sent.
fetchUser_guardClearedAtOnce(c) ==
    IF fetching[c]
    THEN UNCHANGED <<user, fetching, inflight>>
    ELSE /\ fetching' = [fetching EXCEPT ![c] = FALSE]
         /\ user' = [user EXCEPT ![c] = "loading"]
         /\ inflight' = [inflight EXCEPT ![c] = @ + 1]

\* fetchUser with setState in front of the guard.
fetchUser_loadingBeforeGuard(c) ==
    IF fetching[c]
    THEN /\ user' = [user EXCEPT ![c] = "loading"]
         /\ UNCHANGED <<fetching, inflight>>
    ELSE /\ fetching' = [fetching EXCEPT ![c] = TRUE]
         /\ user' = [user EXCEPT ![c] = "loading"]
         /\ inflight' = [inflight EXCEPT ![c] = @ + 1]

\* fetchUser without the early return of the guard.
fetchUser_noGuard(c) ==
    /\ fetching' = [fetching EXCEPT ![c] = TRUE]
    /\ user' = [user EXCEPT ![c] = "loading"]
    /\ inflight' = [inflight EXCEPT ![c] = @ + 1]

\* fetchUser whose guard is checked but never set.
fetchUser_guardNotSet(c) ==
    IF fetching[c]
    THEN UNCHANGED <<user, fetching, inflight>>
    ELSE /\ UNCHANGED fetching
         /\ user' = [user EXCEPT ![c] = "loading"]
         /\ inflight' = [inflight EXCEPT ![c] = @ + 1]

\* fetchUser: the guard, the Loading state and the request.
fetchUser(c) ==
    IF fetching[c]
    THEN UNCHANGED <<user, fetching, inflight>>
    ELSE /\ fetching' = [fetching EXCEPT ![c] = TRUE]
         /\ user' = [user EXCEPT ![c] = "loading"]
         /\ inflight' = [inflight EXCEPT ![c] = @ + 1]

\* The callback with WS.connect moved in front of result.match.
thenCallback_connectFirst(c, result) ==
    IF result.isOk
    THEN [connect |-> TRUE, user |-> result.ok, notes |-> <<>>,
          fetching |-> FALSE]
    ELSE IF result.err.status_code = Unauthenticated
         THEN [connect |-> TRUE, user |-> "unauthenticated", notes |-> <<>>,
               fetching |-> FALSE]
         ELSE [connect |-> TRUE, user |-> user[c],
               notes |-> <<result.err.message>>, fetching |-> FALSE]

\* The callback with the guard cleared inside the error branch only.
thenCallback_keepGuard(c, result) ==
    IF result.isOk
    THEN [connect |-> TRUE, user |-> result.ok, notes |-> <<>>,
          fetching |-> TRUE]
    ELSE IF result.err.status_code = Unauthenticated
         THEN [connect |-> FALSE, user |-> "unauthenticated", notes |-> <<>>,
               fetching |-> FALSE]
         ELSE [connect |-> FALSE, user |-> user[c],
               notes |-> <<result.err.message>>, fetching |-> FALSE]

\* The callback with the Unauthenticated case falling through to default.
thenCallback_noUnauthCase(c, result) ==
    IF result.isOk
    THEN [connect |-> TRUE, user |-> result.ok, notes |-> <<>>,
          fetching |-> FALSE]
    ELSE [connect |-> FALSE, user |-> user[c],
          notes |-> <<result.err.message>>, fetching |-> FALSE]

\* The callback with WS.connect also in the Unauthenticated case.
thenCallback_connectOnError(c, result) ==
    IF result.isOk
    THEN [connect |-> TRUE, user |-> result.ok, notes |-> <<>>,
          fetching |-> FALSE]
    ELSE IF result.err.status_code = Unauthenticated
         THEN [connect |-> TRUE, user |-> "unauthenticated", notes |-> <<>>,
               fetching |-> FALSE]
         ELSE [connect |-> FALSE, user |-> user[c],
               notes |-> <<result.err.message>>, fetching |-> FALSE]

\* The callback with a default case that falls back to Unauthenticated.
thenCallback_fallback(c, result) ==
    IF result.isOk
    THEN [connect |-> TRUE, user |-> result.ok, notes |-> <<>>,
          fetching |-> FALSE]
    ELSE IF result.err.status_code = Unauthenticated
         THEN [connect |-> FALSE, user |-> "unauthenticated", notes |-> <<>>,
               fetching |-> FALSE]
         ELSE [connect |-> FALSE, user |-> "unauthenticated",
               notes |-> <<result.err.message>>, fetching |-> FALSE]

\* The callback whose default case returns before the guard is cleared.
thenCallback_returnInDefault(c, result) ==
    IF result.isOk
    THEN [connect |-> TRUE, user |-> result.ok, notes |-> <<>>,
          fetching |-> FALSE]
    ELSE IF result.err.status_code = Unauthenticated
         THEN [connect |-> FALSE, user |-> "unauthenticated", notes |-> <<>>,
               fetching |-> FALSE]
         ELSE [connect |-> FALSE, user |-> user[c],
               notes |-> <<result.err.message>>, fetching |-> TRUE]

\* The callback with toast.error in front of the switch.
thenCallback_toastAll(c, result) ==
    IF result.isOk
    THEN [connect |-> TRUE, user |-> result.ok, notes |-> <<>>,
          fetching |-> FALSE]
    ELSE IF result.err.status_code = Unauthenticated
         THEN [connect |-> FALSE, user |-> "unauthenticated",
               notes |-> <<result.err.message>>, fetching |-> FALSE]
         ELSE [connect |-> FALSE, user |-> user[c],
               notes |-> <<result.err.message>>, fetching |-> FALSE]

\* The callback that does not take a session the interceptor downgraded
\* back to Authenticated.
thenCallback_keepDowngrade(c, result) ==
    IF result.isOk
    THEN [connect |-> TRUE,
          user |-> IF user[c] = "unauthenticated" THEN user[c] ELSE result.ok,
          notes |-> <<>>, fetching |-> FALSE]
    ELSE IF result.err.status_code = Unauthenticated
         THEN [connect |-> FALSE, user |-> "unauthenticated", notes |-> <<>>,
               fetching |-> FALSE]
         ELSE [connect |-> FALSE, user |-> user[c],
               notes |-> <<result.err.message>>, fetching |-> FALSE]

\* The callback that returns from the Unauthenticated case.
thenCallback_returnInUnauthCase(c, result) ==
    IF result.isOk
    THEN [connect |-> TRUE, user |-> result.ok, notes |-> <<>>,
          fetching |-> FALSE]
    ELSE IF result.err.status_code = Unauthenticated
         THEN [connect |-> FALSE, user |-> "unauthenticated", notes |-> <<>>,
               fetching |-> TRUE]
         ELSE [connect |-> FALSE, user |-> user[c],
               notes |-> <<result.err.message>>, fetching |-> FALSE]

\* The callback that only clears the guard once its controller is unmounted.
thenCallback_ifMounted(c, result) ==
    IF ~mounted[c]
    THEN [connect |-> FALSE, user |-> user[c], notes |-> <<>>,
          fetching |-> FALSE]
    ELSE IF result.isOk
    THEN [connect |-> TRUE, user |-> result.ok, notes |-> <<>>,
          fetching |-> FALSE]
    ELSE IF result.err.status_code = Unauthenticated
         THEN [connect |-> FALSE, user |-> "unauthenticated", notes |-> <<>>,
               fetching |-> FALSE]
         ELSE [connect |-> FALSE, user |-> user[c],
               notes |-> <<result.err.message>>, fetching |-> FALSE]

\* The callback of Api.users.getMe().then(..): what it does with the result.
thenCallback(c, result) ==
    IF result.isOk
    THEN [connect |-> TRUE, user |-> result.ok, notes |-> <<>>,
          fetching |-> FALSE]
    ELSE IF result.err.status_code = Unauthenticated
         THEN [connect |-> FALSE, user |-> "unauthenticated", notes |-> <<>>,
               fetching |-> FALSE]
         ELSE [connect |-> FALSE, user |-> user[c],
               notes |-> <<result.err.message>>, fetching |-> FALSE]

FetchDone(c) ==
    /\ inflight[c] > 0
    /\ \E o \in GetMeOutcomes :
        LET result == handleError(o)
            eff == thenCallback(c, result)
            sent == IF eff.connect /\ WSconnectEmits(ws)
                    THEN emit("connecting", listeners, 1, toasts, <<>>)
                    ELSE Quiet
        IN  /\ inflight' = [inflight EXCEPT ![c] = @ - 1]
            /\ ws' = IF eff.connect THEN WSconnect(ws) ELSE ws
            /\ listeners' = sent.listeners
            /\ toasts' = sent.toasts
            /\ user' = [user EXCEPT ![c] = eff.user]
            /\ fetching' = [fetching EXCEPT ![c] = eff.fetching]
            /\ hist' = [hist EXCEPT ![c] =
                            IF result.isOk \/ @ = "succeeded"
                            THEN "succeeded" ELSE "resolved"]
            /\ last' = [Event("FetchDone", c) EXCEPT
                    !.res = IF result.isOk THEN 0 ELSE result.err.status_code,
                    !.ok = result.ok,
                    !.msg = result.err.message,
                    !.kind = o.kind,
                    !.slot = USER_PROVIDER,
                    !.first = hist[c] = "none",
                    !.connects = IF eff.connect THEN 1 ELSE 0,
                    !.wsBefore = IF eff.connect THEN ws.state ELSE "",
                    !.notes = sent.notes \o eff.notes]
    /\ UNCHANGED <<mounted, USER_PROVIDER, logins, mounts>>

registerLog(c) ==
    IF USER_PROVIDER = NULL THEN {}
    ELSE IF USER_PROVIDER = c THEN {"UserProvider did mount twice"}
    ELSE {"Two instances of UserProvider are used"}

\* Registration that overwrites the slot.
register_overwrite(c) == c

register(c) == IF USER_PROVIDER = NULL THEN c ELSE USER_PROVIDER

componentDidMount(c) ==
    /\ ~mounted[c]
    /\ mounts < MaxMounts
    /\ fetchUser(c)
    /\ USER_PROVIDER' = register(c)
    /\ toasts' = toasts \cup {FreshToast(toasts)}
    /\ listeners' = Append(listeners, FreshToast(toasts))
    /\ mounted' = [mounted EXCEPT ![c] = TRUE]
    /\ mounts' = mounts + 1
    /\ UNCHANGED <<logins, ws, hist>>
    /\ last' = [Event("componentDidMount", c) EXCEPT
                    !.slot = USER_PROVIDER, !.logs = registerLog(c)]

deregisterLog(c) ==
    IF USER_PROVIDER = c THEN {}
    ELSE IF USER_PROVIDER = NULL
         THEN {"UserProvider instance did unmount twice"}
    ELSE {"Two instances of UserProvider are used"}

\* Deregistration that leaves the slot alone.
deregister_never(c) == USER_PROVIDER

\* Deregistration that clears the slot whoever occupies it.
deregister_always(c) == NULL

deregister(c) == IF USER_PROVIDER = c THEN NULL ELSE USER_PROVIDER

\* An unmount that removes the listener and the notification of the last
\* mount.
componentWillUnmount_cleanup(c) ==
    /\ mounted[c]
    /\ USER_PROVIDER' = deregister(c)
    /\ mounted' = [mounted EXCEPT ![c] = FALSE]
    /\ listeners' = SubSeq(listeners, 1, Len(listeners) - 1)
    /\ toasts' = toasts \ {listeners[Len(listeners)]}
    /\ UNCHANGED <<user, fetching, inflight, logins, ws, mounts, hist>>
    /\ last' = [Event("componentWillUnmount", c) EXCEPT
                    !.slot = USER_PROVIDER, !.logs = deregisterLog(c)]

componentWillUnmount(c) ==
    /\ mounted[c]
    /\ USER_PROVIDER' = deregister(c)
    /\ mounted' = [mounted EXCEPT ![c] = FALSE]
    /\ UNCHANGED <<user, fetching, inflight, logins, ws, listeners, toasts,
                   mounts, hist>>
    /\ last' = [Event("componentWillUnmount", c) EXCEPT
                    !.slot = USER_PROVIDER, !.logs = deregisterLog(c)]

\* render() without the "loading" case.
render_noLoadingCase(c) ==
    IF user[c] = "unauthenticated" THEN "Login"
    ELSE "USER_CONTEXT.Provider"

\* What render() puts on screen for controller c.
render(c) ==
    IF user[c] = "loading" THEN "placeholder"
    ELSE IF user[c] = "unauthenticated" THEN "Login"
    ELSE "USER_CONTEXT.Provider"

\* reset called through a reference a consumer kept from an earlier render.
reset_keptReference(c) ==
    /\ mounted[c]
    /\ hist[c] = "succeeded"
    /\ fetchUser(c)
    /\ UNCHANGED <<mounted, USER_PROVIDER, logins, ws, listeners, toasts,
                   mounts, hist>>
    /\ last' = Event("reset", c)

\* A consumer of USER_CONTEXT calls reset.
reset(c) ==
    /\ mounted[c]
    /\ render(c) = "USER_CONTEXT.Provider"
    /\ fetchUser(c)
    /\ UNCHANGED <<mounted, USER_PROVIDER, logins, ws, listeners, toasts,
                   mounts, hist>>
    /\ last' = Event("reset", c)

\* The login view is submitted: Api.auth.login is sent.  The view can be
\* submitted any number of times, so from then on any number of answers can
\* arrive.
LoginSubmit(c) ==
    /\ mounted[c]
    /\ render(c) = "Login"
    /\ ~logins[c]
    /\ logins' = [logins EXCEPT ![c] = TRUE]
    /\ UNCHANGED <<user, fetching, inflight, mounted, USER_PROVIDER, ws,
                   listeners, toasts, mounts, hist>>
    /\ last' = Event("LoginSubmit", c)

\* Api.auth.login answered with success: the login view calls onLogin.
onLogin(c) ==
    /\ logins[c]
    /\ \E o \in LoginOutcomes : handleError(o).isOk
    /\ fetchUser(c)
    /\ UNCHANGED <<mounted, USER_PROVIDER, logins, ws, listeners, toasts,
                   mounts, hist>>
    /\ last' = Event("onLogin", c)

\* ------------------------------------------------------------ inspectError
InspectedCodes ==
    {Unauthenticated, OtherStatusCode, JsonDecodeError, ArbitraryJSError}

\* inspectError that only downgrades a session that is Authenticated.
inspectErrorUser_onlyAuthenticated(error) ==
    IF /\ error.status_code = Unauthenticated
       /\ USER_PROVIDER # NULL
       /\ IsUser(user[USER_PROVIDER])
    THEN [user EXCEPT ![USER_PROVIDER] = "unauthenticated"]
    ELSE user

\* inspectError that downgrades every controller instead of the registered
\* one.
inspectErrorUser_everyController(error) ==
    IF error.status_code = Unauthenticated
    THEN [c \in Ctrl |-> "unauthenticated"]
    ELSE user

\* inspectError without the switch on the status code.
inspectErrorUser_anyCode(error) ==
    IF USER_PROVIDER # NULL
    THEN [user EXCEPT ![USER_PROVIDER] = "unauthenticated"]
    ELSE user

inspectErrorUser(error) ==
    IF error.status_code = Unauthenticated /\ USER_PROVIDER # NULL
    THEN [user EXCEPT ![USER_PROVIDER] = "unauthenticated"]
    ELSE user

inspectErrorLog(error) ==
    IF error.status_code = Unauthenticated /\ USER_PROVIDER = NULL
    THEN {"inspectError has been called without a UserProvider"}
    ELSE {}

inspectError(error) ==
    /\ user' = inspectErrorUser(error)
    /\ UNCHANGED <<fetching, inflight, mounted, USER_PROVIDER, logins, ws,
                   listeners, toasts, mounts, hist>>
    /\ last' = [Event("inspectError", USER_PROVIDER) EXCEPT
                    !.res = error.status_code, !.slot = USER_PROVIDER,
                    !.logs = inspectErrorLog(error)]

\* ------------------------------------------------- events of the monitor
WsEvent(op, from, to) ==
    /\ ws.started
    /\ ws.state \in from
    /\ ws' = [ws EXCEPT !.state = to]
    /\ LET sent == emit(to, listeners, 1, toasts, <<>>)
       IN  /\ listeners' = sent.listeners
           /\ toasts' = sent.toasts
           /\ last' = [Event(op, NULL) EXCEPT !.notes = sent.notes]
    /\ UNCHANGED <<user, fetching, inflight, mounted, USER_PROVIDER, logins,
                   mounts, hist>>

\* A monitor whose socket can open without a connection attempt.
WsOpened_fromDisconnected ==
    WsEvent("WsOpened", {"connecting", "disconnected"}, "connected")

WsOpened == WsEvent("WsOpened", {"connecting"}, "connected")
WsClosed == WsEvent("WsClosed", {"connecting", "connected"}, "disconnected")
WsRetry == WsEvent("WsRetry", {"disconnected"}, "connecting")

Next ==
    \/ \E c \in Ctrl : componentDidMount(c)
    \/ \E c \in Ctrl : componentWillUnmount(c)
    \/ \E c \in Ctrl : FetchDone(c)
    \/ \E c \in Ctrl : reset(c)
    \/ \E c \in Ctrl : LoginSubmit(c)
    \/ \E c \in Ctrl : onLogin(c)
    \/ \E code \in InspectedCodes :
          inspectError([status_code |-> code, message |-> "x"])
    \/ WsOpened
    \/ WsClosed
    \/ WsRetry

Spec == Init /\ [][Next]_vars

\* The application as the root route builds it: one UserProvider, mounted
\* under React.StrictMode, whose pending request is answered.
Root == 1

RootNext ==
    \/ componentDidMount(Root)
    \/ componentWillUnmount(Root)
    \/ FetchDone(Root)
    \/ reset(Root)
    \/ LoginSubmit(Root)
    \/ onLogin(Root)
    \/ \E code \in InspectedCodes :
          inspectError([status_code |-> code, message |-> "x"])
    \/ WsOpened
    \/ WsClosed
    \/ WsRetry

Fairness == WF_vars(FetchDone(Root))

LiveSpec == Init /\ [][RootNext]_vars /\ Fairness

\* ================================================================= claims
FetchCalls == {"componentDidMount", "reset", "onLogin"}

\* C1: at most one get-current-user request of a controller is in flight at
\* any time, and a fetchUser call that finds the guard set (no completion
\* since the call that set it) issues no further request, while a call that
\* finds it clear issues exactly one.
C1_SingleFlight ==
    /\ \A c \in Ctrl : inflight[c] <= 1
    /\ last.op \in FetchCalls =>
          last.issued = (IF last.guard THEN 0 ELSE 1)

C1_Witness ==
    /\ last.op \in FetchCalls
    /\ last.guard
    /\ inflight[last.c] = 1

C3_ConnectOnlyWhenDisconnected ==
    (last.connects > 0 /\ \A d \in Ctrl \ {last.c} : hist[d] = "none") =>
        last.wsBefore = "disconnected"

\* C4 as stated: a step of a controller that changes its session takes one of
\* Loading->Authenticated, Loading->Unauthenticated,
\* Authenticated->Unauthenticated, Unauthenticated->Loading.
ListedTransitions ==
    { <<"Loading", "Authenticated">>, <<"Loading", "Unauthenticated">>,
      <<"Authenticated", "Unauthenticated">>, <<"Unauthenticated", "Loading">>,
      <<"Loading", "Loading">> }

Changed == last.c # NULL /\ last.from # last.to

C4_OnlyListedTransitions ==
    Changed => <<Session(last.from), Session(last.to)>> \in ListedTransitions

\* C4 amended: a step that changes a session is one of
\*   Loading->Authenticated and Unauthenticated->Authenticated, by a fetch
\*     success only;
\*   Loading->Unauthenticated, by a not-authenticated fetch result or by
\*     inspectError with the not-authenticated code;
\*   Authenticated->Unauthenticated, by inspectError only;
\*   Unauthenticated->Loading and Authenticated->Loading, by a fetchUser call
\*     that found the guard clear;
\* a session never goes from one user to another, and a fetchUser call that
\* found the guard set changes nothing.
FetchSuccess == last.op = "FetchDone" /\ last.res = 0
FetchUnauthenticated == last.op = "FetchDone" /\ last.res = Unauthenticated
Interceptor == last.op = "inspectError" /\ last.res = Unauthenticated
FreshFetch == last.op \in FetchCalls /\ ~last.guard /\ last.issued = 1

C4_Transitions ==
    /\ Changed =>
        LET t == <<Session(last.from), Session(last.to)>>
        IN  \/ t \in { <<"Loading", "Authenticated">>,
                       <<"Unauthenticated", "Authenticated">> }
               /\ FetchSuccess
            \/ t = <<"Loading", "Unauthenticated">>
               /\ (FetchUnauthenticated \/ Interceptor)
            \/ t = <<"Authenticated", "Unauthenticated">> /\ Interceptor
            \/ t \in { <<"Unauthenticated", "Loading">>,
                       <<"Authenticated", "Loading">> }
               /\ FreshFetch
    /\ (last.op \in FetchCalls /\ last.guard) => last.from = last.to

C4_Witness ==
    /\ Session(last.from) = "Authenticated"
    /\ Session(last.to) = "Loading"
    /\ last.op = "reset"

\* C5: inspectError with the not-authenticated code, called while a
\* controller is registered, leaves that controller Unauthenticated whatever
\* its session was, and issues no request.
C5_InspectErrorDowngrades ==
    (last.op = "inspectError" /\ last.res = Unauthenticated
        /\ last.slot # NULL) =>
        /\ last.c = last.slot
        /\ user[last.c] = "unauthenticated"
        /\ last.issued = 0
        /\ inflight[last.c] <= 1

C5_Witness ==
    /\ last.op = "inspectError"
    /\ last.res = Unauthenticated
    /\ last.from = "loading"
    /\ fetching[last.c]
    /\ user[last.c] = "unauthenticated"

\* C6 as stated: after the first fetch of a controller resolves, with any
\* result, its session is not Loading.
C6_FirstFetchLeavesLoading ==
    (last.op = "FetchDone" /\ last.first) => user[last.c] # "loading"

\* C6 amended: after the first fetch of a controller resolves with success
\* its session is Authenticated, after it resolves with the not-authenticated
\* code it is Unauthenticated, and after it resolves with any other error the
\* session is what it was before the completion (Loading, unless inspectError
\* fired meanwhile).
C6_FirstFetchResolved ==
    (last.op = "FetchDone" /\ last.first) =>
        /\ last.res = 0 => Session(user[last.c]) = "Authenticated"
        /\ last.res = Unauthenticated => user[last.c] = "unauthenticated"
        /\ last.res \notin {0, Unauthenticated} =>
              /\ user[last.c] = last.from
              /\ last.from \in {"loading", "unauthenticated"}

C6_Witness ==
    /\ last.op = "FetchDone"
    /\ last.first
    /\ last.res \notin {0, Unauthenticated}
    /\ user[last.c] = "loading"

\* C7 as stated: reset() or onLogin called while the session is
\* Unauthenticated makes it Loading and issues a new request.
C7_ResetAlwaysRefetches ==
    (last.op \in {"reset", "onLogin"} /\ last.from = "unauthenticated") =>
        /\ user[last.c] = "loading"
        /\ last.issued = 1

\* C7 amended: reset() or onLogin called while the session is
\* Unauthenticated and the guard is clear makes the session Loading and
\* issues exactly one new request, which is then the only one in flight; when
\* the guard is set (Unauthenticated was entered through inspectError while a
\* fetch is in flight) the call changes nothing: the session stays
\* Unauthenticated and the earlier request stays the only one in flight.
C7_ResetRefetchesWhenGuardClear ==
    (last.op \in {"reset", "onLogin"} /\ last.from = "unauthenticated") =>
        /\ fetching[last.c]
        /\ inflight[last.c] = 1
        /\ ~last.guard => user[last.c] = "loading" /\ last.issued = 1
        /\ last.guard => user[last.c] = "unauthenticated" /\ last.issued = 0

C7_Witness ==
    /\ last.op = "onLogin"
    /\ last.from = "unauthenticated"
    /\ ~last.guard
    /\ user[last.c] = "loading"
    /\ last.issued = 1

\* C8: a fetch that completes successfully with user u leaves the session
\* Authenticated(u) with exactly that user, invokes WS.connect once and
\* clears the guard.
C8_FetchSuccess ==
    (last.op = "FetchDone" /\ last.res = 0) =>
        /\ last.ok \in Users
        /\ user[last.c] = last.ok
        /\ last.connects = 1
        /\ ws.started /\ ws.state = "connecting"
        /\ ~fetching[last.c]

C8_Witness ==
    /\ last.op = "FetchDone"
    /\ last.res = 0
    /\ last.from = "loading"
    /\ user[last.c] = "u2"
    /\ ~fetching[last.c]

\* C9: a fetch that completes with the not-authenticated code leaves the
\* session Unauthenticated, clears the guard and does not invoke WS.connect;
\* as long as no fetch has succeeded WS.connect has not been called.
C9_FetchUnauthenticated ==
    /\ (last.op = "FetchDone" /\ last.res = Unauthenticated) =>
          /\ user[last.c] = "unauthenticated"
          /\ ~fetching[last.c]
          /\ last.connects = 0
    /\ (\A c \in Ctrl : hist[c] # "succeeded") => ~ws.started

C9_Witness ==
    /\ last.op = "FetchDone"
    /\ last.res = Unauthenticated
    /\ user[last.c] = "unauthenticated"
    /\ \A c \in Ctrl : hist[c] = "resolved"
    /\ ~ws.started

\* C10: a controller that mounts while another controller occupies the
\* global slot leaves the slot to that controller, completes its mount and
\* logs the conflict; a controller that mounts while the slot is empty
\* becomes the registered singleton.
C10_SingletonRegistration ==
    last.op = "componentDidMount" =>
        /\ mounted[last.c]
        /\ last.slot \notin {NULL, last.c} =>
              /\ USER_PROVIDER = last.slot
              /\ last.logs = {"Two instances of UserProvider are used"}
        /\ last.slot = NULL =>
              /\ USER_PROVIDER = last.c
              /\ last.logs = {}

C10_Witness ==
    /\ last.op = "componentDidMount"
    /\ last.slot \notin {NULL, last.c}
    /\ USER_PROVIDER = last.slot
    /\ mounted[USER_PROVIDER]

\* C11: componentWillUnmount sets the global slot to null only when the slot
\* refers to the controller that unmounts; the unmount of a controller that
\* is not the registered one leaves the slot as it was and only logs.
C11_Deregistration ==
    last.op = "componentWillUnmount" =>
        /\ ~mounted[last.c]
        /\ last.slot = last.c => USER_PROVIDER = NULL /\ last.logs = {}
        /\ last.slot # last.c =>
              /\ USER_PROVIDER = last.slot
              /\ last.logs # {}
              /\ last.from = last.to

C11_Witness ==
    /\ last.op = "componentWillUnmount"
    /\ last.slot \notin {NULL, last.c}
    /\ USER_PROVIDER = last.slot
    /\ mounted[USER_PROVIDER]

\* What a handler can change of the controllers, the slot, the monitor and
\* the notifications.
Program ==
    <<user, fetching, inflight, mounted, USER_PROVIDER, logins, ws,
      listeners, toasts>>

\* C12: inspectError with the not-authenticated code, called while no
\* controller is registered, changes no session, issues no request, shows
\* nothing and only logs its warning.
C12_InspectErrorUnregistered ==
    [][(last'.op = "inspectError" /\ last'.res = Unauthenticated
            /\ USER_PROVIDER = NULL) =>
          /\ UNCHANGED Program
          /\ last'.notes = <<>>
          /\ last'.logs =
                {"inspectError has been called without a UserProvider"}]_vars

C12_Witness ==
    /\ last.op = "inspectError"
    /\ last.res = Unauthenticated
    /\ last.slot = NULL
    /\ last.logs = {"inspectError has been called without a UserProvider"}
    /\ \E c \in Ctrl : fetching[c] /\ user[c] = "loading"

\* C13: inspectError with any status code other than the not-authenticated
\* one leaves every session, every guard, the singleton slot, the monitor and
\* the notifications as they were, and logs nothing.
C13_InspectErrorOtherCode ==
    [][(last'.op = "inspectError" /\ last'.res # Unauthenticated) =>
          /\ UNCHANGED Program
          /\ last'.notes = <<>>
          /\ last'.logs = {}]_vars

C13_Witness ==
    /\ last.op = "inspectError"
    /\ last.res = ArbitraryJSError
    /\ last.slot # NULL
    /\ Session(user[last.slot]) = "Authenticated"

\* Controller c has never been mounted: componentDidMount sets its guard,
\* which only a completion clears.
NeverMounted(c) == ~mounted[c] /\ ~fetching[c] /\ hist[c] = "none"

OneController == \E c \in Ctrl : NeverMounted(c)

\* C14: at no time is more than one persistent "connecting" notification
\* visible; stated for the runs in which a single controller is mounted,
\* unmounted and mounted again.
C14_AtMostOnePersistent ==
    OneController => Cardinality(toasts) <= 1

\* C15: for every state listener, a monitor state event other than connected
\* that finds the listener without a persistent warning makes it show exactly
\* one new warning, and one that finds it with a warning adds none and keeps
\* that warning.
Idle(ls) == {i \in 1 .. Len(ls) : ls[i] = NULL}

C15_WarningOncePerListener ==
    [][(ws'.state # ws.state /\ ws'.state # "connected") =>
          /\ Len(listeners') = Len(listeners)
          /\ \A i \in 1 .. Len(listeners) :
                /\ listeners[i] # NULL => listeners'[i] = listeners[i]
                /\ listeners[i] = NULL =>
                      /\ listeners'[i] # NULL
                      /\ listeners'[i] \notin toasts
                      /\ listeners'[i] \in toasts'
          /\ toasts \subseteq toasts'
          /\ Cardinality(toasts') =
                Cardinality(toasts) + Cardinality(Idle(listeners))]_vars

C15_Witness ==
    /\ last.op = "WsClosed"
    /\ Len(listeners) = 1
    /\ last.shown = 0
    /\ toasts = {listeners[1]}

\* C16: a connected event dismisses the persistent notification and shows
\* exactly one transient "connected" notification, and while the monitor is
\* connected no persistent warning is visible; stated for the runs of a
\* single controller.
C16_ConnectedReplacesWarning ==
    OneController =>
        /\ ws.state = "connected" => toasts = {}
        /\ last.op = "WsOpened" => Len(last.notes) = 1

\* C17: a controller that mounts while another controller is registered
\* issues no get-current-user request and adds no notification.
C17_SurplusInert ==
    (last.op = "componentDidMount" /\ last.slot \notin {NULL, last.c}) =>
        /\ last.issued = 0
        /\ Cardinality(toasts) = last.shown

\* C18: a fetch that completes with an error whose code is not the
\* not-authenticated one leaves the session as the completion found it and
\* clears the guard; a fetchUser call that then finds the session Loading
\* with the guard clear issues a new request.
OtherError ==
    last.op = "FetchDone" /\ last.res \notin {0, Unauthenticated}

C18_OtherErrorKeepsSession ==
    /\ OtherError =>
          /\ user[last.c] = last.from
          /\ ~fetching[last.c]
          /\ inflight[last.c] = 0
    /\ (last.op \in FetchCalls /\ last.from = "loading" /\ ~last.guard) =>
          /\ last.issued = 1
          /\ fetching[last.c]

C18_Witness ==
    /\ last.op \in FetchCalls
    /\ last.from = "loading"
    /\ ~last.guard
    /\ hist[last.c] = "resolved"
    /\ last.issued = 1

\* C19: a fetch that completes with the not-authenticated code shows no
\* notification and leaves the login view on screen, and a fetch that
\* completes with any other error shows exactly one notification, the
\* message of the error.
C19_ErrorNotifications ==
    /\ FetchUnauthenticated =>
          /\ last.notes = <<>>
          /\ render(last.c) = "Login"
    /\ OtherError => last.notes = <<last.msg>> /\ last.msg # ""

C19_Witness ==
    /\ OtherError
    /\ last.res = OtherStatusCode
    /\ last.notes = <<"denied">>

\* C20: render() gives the context and the children exactly when the session
\* is Authenticated, the placeholder exactly when it is Loading and the login
\* view exactly when it is Unauthenticated; a consumer calls reset only from
\* an Authenticated session and the login view is submitted only from an
\* Unauthenticated one.
C20_RenderBySession ==
    /\ \A c \in Ctrl :
          /\ render(c) = "USER_CONTEXT.Provider"
                <=> Session(user[c]) = "Authenticated"
          /\ render(c) = "placeholder" <=> Session(user[c]) = "Loading"
          /\ render(c) = "Login" <=> Session(user[c]) = "Unauthenticated"
    /\ last.op = "reset" => last.from \in Users
    /\ last.op = "LoginSubmit" => last.from = "unauthenticated"

C20_Witness ==
    /\ last.op = "reset"
    /\ last.from \in Users
    /\ render(last.c) = "placeholder"

\* C21: a get-current-user response that arrives after its controller was
\* unmounted still runs the whole completion callback on it: the session is
\* set from the result, WS.connect is called on success, the guard is
\* cleared; the controller is not the registered one and the singleton slot
\* is left as it was.
LateCompletion == last.op = "FetchDone" /\ ~mounted[last.c]

C21_LateCompletionRunsInFull ==
    LateCompletion =>
        /\ last.res = 0 => user[last.c] = last.ok /\ last.connects = 1
        /\ last.res = Unauthenticated => user[last.c] = "unauthenticated"
        /\ last.res \notin {0, Unauthenticated} => last.notes # <<>>
        /\ ~fetching[last.c]
        /\ USER_PROVIDER # last.c
        /\ USER_PROVIDER = last.slot

C21_Witness ==
    /\ LateCompletion
    /\ last.res = 0
    /\ last.from = "loading"
    /\ user[last.c] \in Users
    /\ last.connects = 1
    /\ USER_PROVIDER \notin {NULL, last.c}

\* C22: handleError resolves for every way the request can settle: Ok(value)
\* when it fulfils, Err(parsed body) for a ResponseError (status -1 when the
\* body is not JSON), Err with status -1 for a RequiredError, Err with status
\* -2 for anything else thrown; a negative status code never comes from a
\* response body.
Mapped(o, result) ==
    /\ result.isOk \in BOOLEAN
    /\ o.kind = "fulfilled" => result = Ok(o.value)
    /\ o.kind = "ResponseError" => result = Err(o.body)
    /\ o.kind \in {"ResponseErrorNoJson", "RequiredError"} =>
          ~result.isOk /\ result.err.status_code = JsonDecodeError
    /\ o.kind = "thrown" =>
          ~result.isOk /\ result.err.status_code = ArbitraryJSError
    /\ (~result.isOk /\ result.err.status_code < 0) =>
          o.kind \notin {"fulfilled", "ResponseError"}

C22_HandleErrorResolves ==
    /\ \A o \in GetMeOutcomes \cup LoginOutcomes : Mapped(o, handleError(o))
    /\ last.op = "FetchDone" =>
          /\ last.kind = "fulfilled" <=> last.res = 0
          /\ last.kind = "ResponseError" <=> last.res > 0
          /\ last.kind \in {"ResponseErrorNoJson", "RequiredError"}
                <=> last.res = JsonDecodeError
          /\ last.kind = "thrown" <=> last.res = ArbitraryJSError

C22_Witness ==
    /\ last.op = "FetchDone"
    /\ last.kind = "RequiredError"
    /\ last.res = JsonDecodeError
    /\ last.msg = "The server's response didn't match the spec"

\* C23: the monitor becomes Connected only from Connecting, and only after
\* connect was called.
C23_ConnectedOnlyFromConnecting ==
    [][(ws'.state = "connected" /\ ws.state # "connected") =>
          /\ ws.state = "connecting"
          /\ ws.started]_vars

C23_Witness ==
    /\ last.op = "WsOpened"
    /\ ws.state = "connected"
    /\ last.notes # <<>>
    /\ toasts = {}

\* C24: a fetchUser call that finds the guard set changes neither the
\* session, be it Loading or Unauthenticated, nor the guard, the request in
\* flight or the monitor; made through reset() or onLogin() the whole handler
\* changes nothing, the singleton slot included.
C24_GuardedCallIsNoOp ==
    [][(last'.op \in FetchCalls /\ fetching[last'.c]) =>
          /\ UNCHANGED <<user, fetching, inflight, ws>>
          /\ inflight[last'.c] = 1
          /\ last'.op # "componentDidMount" => UNCHANGED Program]_vars

C24_Witness ==
    /\ last.op = "onLogin"
    /\ last.guard
    /\ last.from = "unauthenticated"
    /\ user[last.c] = "unauthenticated"
    /\ fetching[last.c]

\* C25: when the pending requests are answered, a guard that is set is
\* eventually cleared, and every completion, whatever its result, leaves the
\* guard of its controller clear.
C25_GuardEventuallyCleared ==
    /\ fetching[Root] ~> ~fetching[Root]
    /\ [](last.op = "FetchDone" => ~fetching[last.c])

C25_Witness ==
    /\ last.op = "FetchDone"
    /\ last.guard
    /\ last.res = ArbitraryJSError
    /\ ~fetching[last.c]

\* C26: the guard of a controller is set exactly when one of its
\* get-current-user requests awaits its callback, there is never more than
\* that one, and before the first mount the guard is clear.
C26_GuardIffInFlight ==
    /\ \A c \in Ctrl :
          /\ inflight[c] \in {0, 1}
          /\ fetching[c] <=> inflight[c] = 1
    /\ last.op = "init" => \A c \in Ctrl : ~fetching[c]

C26_Witness ==
    \E c \in Ctrl :
        /\ fetching[c]
        /\ inflight[c] = 1
        /\ ~mounted[c]
        /\ user[c] = "unauthenticated"

\* C27: the singleton slot is null or holds a controller that is mounted,
\* whatever the order of the mounts and unmounts of the controllers.
C27_SlotHoldsMounted ==
    USER_PROVIDER # NULL => USER_PROVIDER \in Ctrl /\ mounted[USER_PROVIDER]

C27_Witness ==
    /\ last.op = "componentWillUnmount"
    /\ last.slot = last.c
    /\ USER_PROVIDER = NULL
    /\ \E c \in Ctrl : mounted[c]

\* C28: the session a completion with success or with the not-authenticated
\* code leaves is the one its result gives, whatever session it found: a
\* success that finds the session downgraded to Unauthenticated by
\* inspectError makes it Authenticated with the user of the response.
SessionOf(res, ok) == IF res = 0 THEN ok ELSE "unauthenticated"

Downgraded ==
    last.op = "FetchDone" /\ last.guard /\ last.from = "unauthenticated"

C28_CompletionDecidesSession ==
    (last.op = "FetchDone" /\ last.res \in {0, Unauthenticated}) =>
        /\ last.to = SessionOf(last.res, last.ok)
        /\ user[last.c] = last.to
        /\ (Downgraded /\ last.res = 0) =>
              Session(user[last.c]) = "Authenticated" /\ last.connects = 1

C28_Witness ==
    /\ Downgraded
    /\ last.res = 0
    /\ last.slot = last.c
    /\ user[last.c] = last.ok
    /\ last.ok \in Users

\* C29 as stated: a controller whose session is Loading with the guard clear
\* after a completion stays so until inspectError with the not-authenticated
\* code makes it Unauthenticated or the controller is mounted again.
Stuck(c) == user[c] = "loading" /\ ~fetching[c] /\ hist[c] # "none"

Downgrade(c) ==
    /\ last'.op = "inspectError"
    /\ last'.res = Unauthenticated
    /\ last'.c = c
    /\ user'[c] = "unauthenticated"

Remount(c) == last'.op = "componentDidMount" /\ last'.c = c

LateLogin(c) ==
    /\ last'.op = "onLogin"
    /\ last'.c = c
    /\ logins[c]
    /\ last'.issued = 1
    /\ user'[c] = "loading"

C30_ListenerPerMount ==
    /\ Len(listeners) = mounts
    /\ last.op = "componentDidMount" => Cardinality(toasts) = last.shown + 1
    /\ last.op = "componentWillUnmount" => Cardinality(toasts) = last.shown
    /\ last.op = "WsOpened" => Len(last.notes) = mounts

C30_Witness ==
    /\ last.op = "WsOpened"
    /\ Len(last.notes) = 2
    /\ \A c \in Ctrl : ~mounted[c]

====
